---------------------------- MODULE Spec2Model ----------------------------
(***************************************************************************)
(* A model of the wide_deep training scripts:                              *)
(*   src/src/models/deep_fm.py  (model_fn, train_main, __main__)           *)
(*   src/src/models/linear.py   (train_main, __main__)                     *)
(*                                                                         *)
(* Three specifications share the variables:                               *)
(*   Spec        one run of a script: __main__ -> train_main -> the epoch  *)
(*               loop, with model_fn run by the estimator inside every     *)
(*               train and evaluate call of deep_fm;                       *)
(*   ModelFnSpec one call of model_fn on arbitrary params and mode;        *)
(*   MfSpec      the arithmetic of the graph the mf block builds, on       *)
(*               integer embedding matrices.                               *)
(*                                                                         *)
(* model_fn builds a graph: tensors are modelled symbolically (logits is   *)
(* the bag of terms added to it, input_layer the list of its cells).       *)
(* Dropout rates are in tenths (0.1 is 1).                                 *)
(***************************************************************************)
EXTENDS Integers, Sequences, FiniteSets, Bags, TLC

VARIABLES
    \* ---- the script (__main__ and train_main)
    script,        \* "deep_fm" | "linear" | "none" (model_fn or mf driven alone)
    argv,          \* the structural flags on the command line
    args,          \* the parsed arguments
    pc,            \* position in __main__ / train_main
    n,             \* the epoch index of the for loop
    categorical_columns,   \* train_main's local: the columns built from the CSV
    estimator_params,      \* the params dict the Estimator was constructed with
    modelDir,      \* checkpoints in args.model_dir (0: empty or absent)
    events,        \* history: rmtree, estimator, train, train_ok, evaluate, log
    exc,           \* the exception raised inside train_main ("none" if none)
    excLog,        \* what the top-level handler passed to logger.exception
    exitStatus,    \* "running", "ok", or the exception the script died with
    \* ---- one call of model_fn
    mpc,           \* position in model_fn
    params,        \* model_fn's params argument
    mode,          \* model_fn's mode argument
    logits,        \* bag of the logit tensors added to logits
    built,         \* the variable scopes entered, in order
    input_layer,   \* [bound, cells]: the local input_layer
    embedding_mat, \* the rows of the mf block's reshape
    net,           \* the layers of the dnn block, in order
    predictions,   \* [set, logits]: the argument of get_binary_predictions
    computed,      \* which of the helper ops were built
    espec,         \* the keyword arguments of the returned EstimatorSpec
    merr,          \* the exception model_fn raised ("none" if none)
    \* ---- the mf arithmetic
    emb,           \* an integer embedding matrix, d rows of embedding_size
    mfv            \* [set, val]: the mf logit computed from emb

scriptVars == <<script, argv, args, pc, n, categorical_columns, estimator_params,
                modelDir, events, exc, excLog, exitStatus>>
fnVars == <<mpc, params, mode, logits, built, input_layer, embedding_mat, net,
            predictions, computed, espec, merr>>
mfVars == <<emb, mfv>>
vars == <<scriptVars, fnVars, mfVars>>

---------------------------------------------------------------------------
\* Bounds of the model.
MaxEpochs == 2
MaxCategorical == 2
MaxNumeric == 2
MaxEmbedding == 2
MaxHidden == 2
MaxCheckpoint == 1
MaxDim == 3
MaxEntry == 2

\* Program constants.
DefaultEmbeddingSize == 16
DefaultHiddenSize == 64
DefaultHiddenLayers == 3
DefaultDropoutCli == 1
DefaultDropoutModelFn == 0

ExcludeFlags == {"--exclude-linear", "--exclude-mf", "--exclude-dnn"}
Modes == {"TRAIN", "EVAL", "PREDICT"}
DropoutRates == {-1, 0, 1}
MfWidths == {1, 2}

ColumnError == "ValueError: At least 1 feature column of categorical_columns or numeric_columns must be specified."
ComponentError == "ValueError: At least 1 of linear, mf or dnn component must be used."
UnboundError == "UnboundLocalError: input_layer"
ReshapeError == "ValueError: reshape"

\* A list of k feature columns of one kind.
Columns(kind, k) == [i \in 1..k |-> <<kind, i>>]

\* [h] * k
Repeat(h, k) == [i \in 1..k |-> h]

---------------------------------------------------------------------------
\* model_fn

\* params.get(key, default)
Get(p, key, default) == IF key \in DOMAIN p THEN p[key] ELSE default

p_categorical_columns == Get(params, "categorical_columns", <<>>)
p_numeric_columns == Get(params, "numeric_columns", <<>>)
use_linear == Get(params, "use_linear", TRUE)
use_mf == Get(params, "use_mf", TRUE)
use_dnn == Get(params, "use_dnn", TRUE)
embedding_size == Get(params, "embedding_size", DefaultEmbeddingSize)
hidden_units == Get(params, "hidden_units", Repeat(DefaultHiddenSize, DefaultHiddenLayers))
dropout == Get(params, "dropout", DefaultDropoutModelFn)

categorical_dim == Len(p_categorical_columns)
numeric_dim == Len(p_numeric_columns)

Unbound == [bound |-> FALSE, cells |-> <<>>]
NoPredictions == [set |-> FALSE, logits |-> EmptyBag]

\* The locals of a call that has not assigned anything yet.
FreshFrame ==
    /\ logits = EmptyBag
    /\ built = <<>>
    /\ input_layer = Unbound
    /\ embedding_mat = <<>>
    /\ net = <<>>
    /\ predictions = NoPredictions
    /\ computed = {}
    /\ espec = <<>>
    /\ merr = "none"

\* Faulty variant: only the categorical columns are counted.
ColumnsMissing_CategoricalOnly == categorical_dim = 0

\* if (categorical_dim + numeric_dim) == 0: raise ValueError(...)
ColumnsMissing == (categorical_dim + numeric_dim) = 0

CheckColumns ==
    /\ mpc = "check_columns"
    /\ IF ColumnsMissing
         THEN /\ merr' = ColumnError
              /\ mpc' = "raised"
         ELSE /\ merr' = merr
              /\ mpc' = "check_components"
    /\ UNCHANGED <<params, mode, logits, built, input_layer, embedding_mat, net,
                   predictions, computed, espec>>
    /\ UNCHANGED <<scriptVars, mfVars>>

\* if not (use_linear or use_mf or use_dnn): raise ValueError(...)
ComponentsMissing == ~(use_linear \/ use_mf \/ use_dnn)

\* the component check, then logits = 0
CheckComponents ==
    /\ mpc = "check_components"
    /\ IF ComponentsMissing
         THEN /\ merr' = ComponentError
              /\ mpc' = "raised"
              /\ logits' = logits
         ELSE /\ merr' = merr
              /\ mpc' = "linear"
              /\ logits' = EmptyBag
    /\ UNCHANGED <<params, mode, built, input_layer, embedding_mat, net,
                   predictions, computed, espec>>
    /\ UNCHANGED <<scriptVars, mfVars>>

\* Faulty variant: logits = t instead of logits += t.
AddLogit_Overwrite(acc, t) == SetToBag({t})

\* logits += t
AddLogit(acc, t) == acc (+) SetToBag({t})

\* if use_linear: linear_model over categorical_columns + numeric_columns
LinearBlock ==
    /\ mpc = "linear"
    /\ IF use_linear
         THEN /\ built' = Append(built, "linear")
              /\ logits' = AddLogit(logits, "linear_logit")
         ELSE UNCHANGED <<built, logits>>
    /\ mpc' = "input_layer"
    /\ UNCHANGED <<params, mode, input_layer, embedding_mat, net,
                   predictions, computed, espec, merr>>
    /\ UNCHANGED <<scriptVars, mfVars>>

\* The cells of the embedding of the given columns: embedding_size per column.
Cells(cols, e) ==
    [j \in 1..(Len(cols) * e) |->
        [col |-> cols[((j - 1) \div e) + 1], k |-> ((j - 1) % e) + 1]]

\* tf.concat([embedding_inputs, numeric_embedding_inputs], 1)
ConcatInputs(embedding_inputs, numeric_embedding_inputs) ==
    embedding_inputs \o numeric_embedding_inputs

\* Faulty variant: the numeric branch never concatenates the categorical inputs.
InputLayerOf_NoConcat(cats, nums, e) ==
    IF Len(nums) > 0
      THEN [bound |-> TRUE, cells |-> Cells(nums, e)]
      ELSE IF Len(cats) > 0
             THEN [bound |-> TRUE, cells |-> Cells(cats, e)]
             ELSE Unbound

\* The value of input_layer at the end of the input_layer scope.
InputLayerOf(cats, nums, e) ==
    LET embedding_inputs == Cells(cats, e)
        numeric_embedding_inputs == Cells(nums, e)
        afterCategorical ==
            IF Len(cats) > 0
              THEN [bound |-> TRUE, cells |-> embedding_inputs]
              ELSE Unbound
    IN  IF Len(nums) > 0
          THEN IF Len(cats) > 0
                 THEN [bound |-> TRUE,
                       cells |-> ConcatInputs(embedding_inputs, numeric_embedding_inputs)]
                 ELSE [bound |-> TRUE, cells |-> numeric_embedding_inputs]
          ELSE afterCategorical

\* if use_mf or use_dnn: with tf.variable_scope("input_layer")
InputLayerBlock ==
    /\ mpc = "input_layer"
    /\ IF use_mf \/ use_dnn
         THEN /\ built' = Append(built, "input_layer")
              /\ input_layer' = InputLayerOf(p_categorical_columns, p_numeric_columns,
                                             embedding_size)
         ELSE UNCHANGED <<built, input_layer>>
    /\ mpc' = "mf"
    /\ UNCHANGED <<params, mode, logits, embedding_mat, net,
                   predictions, computed, espec, merr>>
    /\ UNCHANGED <<scriptVars, mfVars>>

\* tf.reshape(cells, [-1, d, e]) of one example: d rows of e cells.
Reshape(cells, d, e) ==
    [i \in 1..d |-> [k \in 1..e |-> cells[(i - 1) * e + k]]]

\* if use_mf: with tf.variable_scope("mf")
MfBlock ==
    /\ mpc = "mf"
    /\ IF ~use_mf
         THEN /\ mpc' = "dnn"
              /\ UNCHANGED <<built, logits, embedding_mat, merr>>
         ELSE IF ~input_layer.bound
           THEN /\ merr' = UnboundError
                /\ mpc' = "raised"
                /\ UNCHANGED <<built, logits, embedding_mat>>
           ELSE IF Len(input_layer.cells) # (categorical_dim + numeric_dim) * embedding_size
             THEN /\ merr' = ReshapeError
                  /\ mpc' = "raised"
                  /\ built' = Append(built, "mf")
                  /\ UNCHANGED <<logits, embedding_mat>>
             ELSE /\ built' = Append(built, "mf")
                  /\ embedding_mat' = Reshape(input_layer.cells,
                                              categorical_dim + numeric_dim, embedding_size)
                  /\ logits' = AddLogit(logits, "mf_logit")
                  /\ mpc' = "dnn"
                  /\ merr' = merr
    /\ UNCHANGED <<params, mode, input_layer, net, predictions, computed, espec>>
    /\ UNCHANGED <<scriptVars, mfVars>>

\* Faulty variant: the mode is not tested.
DropoutApplies_AnyMode(rate, md) == rate > 0

\* if dropout > 0 and mode == tf.estimator.ModeKeys.TRAIN
DropoutApplies(rate, md) == rate > 0 /\ md = "TRAIN"

\* One pass of the loop over enumerate(hidden_units): dense, then dropout.
HiddenLayer(i, hidden_size, rate, md) ==
    <<[op |-> "dense", scope |-> i, units |-> hidden_size]>>
    \o (IF DropoutApplies(rate, md)
          THEN <<[op |-> "dropout", scope |-> i, units |-> hidden_size]>>
          ELSE <<>>)

RECURSIVE HiddenLayers(_, _, _, _)
HiddenLayers(units, upto, rate, md) ==
    IF upto = 0 THEN <<>>
    ELSE HiddenLayers(units, upto - 1, rate, md)
         \o HiddenLayer(upto - 1, units[upto], rate, md)

\* with tf.variable_scope('logits'): dnn_logit = tf.layers.dense(net, 1)
LogitsLayer == <<[op |-> "logits", scope |-> -1, units |-> 1]>>

\* The layers of the dnn scope, in order.
DnnLayers(units, rate, md) == HiddenLayers(units, Len(units), rate, md) \o LogitsLayer

\* if use_dnn: with tf.variable_scope("dnn/dnn")
DnnBlock ==
    /\ mpc = "dnn"
    /\ IF ~use_dnn
         THEN /\ mpc' = "predictions"
              /\ UNCHANGED <<built, logits, net, merr>>
         ELSE IF ~input_layer.bound
           THEN /\ merr' = UnboundError
                /\ mpc' = "raised"
                /\ UNCHANGED <<built, logits, net>>
           ELSE /\ built' = Append(built, "dnn")
                /\ net' = DnnLayers(hidden_units, dropout, mode)
                /\ logits' = AddLogit(logits, "dnn_logit")
                /\ mpc' = "predictions"
                /\ merr' = merr
    /\ UNCHANGED <<params, mode, input_layer, embedding_mat, predictions, computed, espec>>
    /\ UNCHANGED <<scriptVars, mfVars>>

\* Faulty variant: the PREDICT spec also carries a loss.
PredictSpec_WithLoss(md) ==
    [mode |-> md, predictions |-> "predictions", loss |-> "losses.loss"]

\* tf.estimator.EstimatorSpec(mode=mode, predictions=predictions)
PredictSpec(md) == [mode |-> md, predictions |-> "predictions"]

\* predictions = get_binary_predictions(logits); return it in PREDICT
PredictionBlock ==
    /\ mpc = "predictions"
    /\ predictions' = [set |-> TRUE, logits |-> logits]
    /\ computed' = computed \cup {"predictions"}
    /\ IF mode = "PREDICT"
         THEN /\ espec' = PredictSpec(mode)
              /\ mpc' = "returned"
         ELSE /\ espec' = espec
              /\ mpc' = "evaluation"
    /\ UNCHANGED <<params, mode, logits, built, input_layer, embedding_mat, net, merr>>
    /\ UNCHANGED <<scriptVars, mfVars>>

\* tf.estimator.EstimatorSpec(mode=mode, loss=losses["loss"], eval_metric_ops=metric_ops)
EvalSpec(md) == [mode |-> md, loss |-> "losses.loss", eval_metric_ops |-> "metric_ops"]

\* losses and metric_ops; return them in EVAL
EvaluationBlock ==
    /\ mpc = "evaluation"
    /\ computed' = computed \cup {"losses", "metric_ops"}
    /\ IF mode = "EVAL"
         THEN /\ espec' = EvalSpec(mode)
              /\ mpc' = "returned"
         ELSE /\ espec' = espec
              /\ mpc' = "training"
    /\ UNCHANGED <<params, mode, logits, built, input_layer, embedding_mat, net,
                   predictions, merr>>
    /\ UNCHANGED <<scriptVars, mfVars>>

\* tf.estimator.EstimatorSpec(mode=mode, loss=losses["loss"], train_op=train_op)
TrainSpec(md) == [mode |-> md, loss |-> "losses.loss", train_op |-> "train_op"]

\* train_op and the average_loss summary; return them in TRAIN
TrainingBlock ==
    /\ mpc = "training"
    /\ computed' = computed \cup {"train_op", "average_loss_summary"}
    /\ espec' = IF mode = "TRAIN" THEN TrainSpec(mode) ELSE espec
    /\ mpc' = "returned"
    /\ UNCHANGED <<params, mode, logits, built, input_layer, embedding_mat, net,
                   predictions, merr>>
    /\ UNCHANGED <<scriptVars, mfVars>>

ModelFnStep ==
    \/ CheckColumns
    \/ CheckComponents
    \/ LinearBlock
    \/ InputLayerBlock
    \/ MfBlock
    \/ DnnBlock
    \/ PredictionBlock
    \/ EvaluationBlock
    \/ TrainingBlock

---------------------------------------------------------------------------
\* __main__ and train_main (deep_fm.py and linear.py)

\* parser.add_argument("--exclude-...", action="store_true"): set iff the flag is given.
\* embedding_size, hidden_units and dropout are left at the parser's defaults.
ParseArgs(flags, epochs) ==
    [num_epochs |-> epochs,
     exclude_linear |-> "--exclude-linear" \in flags,
     exclude_mf |-> "--exclude-mf" \in flags,
     exclude_dnn |-> "--exclude-dnn" \in flags,
     embedding_size |-> DefaultEmbeddingSize,
     hidden_units |-> Repeat(DefaultHiddenSize, DefaultHiddenLayers),
     dropout |-> DefaultDropoutCli]

\* Faulty variant: use_mf is read from the dnn flag.
TrainMainParams_MfFromDnn(cols, a) ==
    [categorical_columns |-> cols,
     use_linear |-> ~a.exclude_linear,
     use_mf |-> ~a.exclude_dnn,
     use_dnn |-> ~a.exclude_dnn,
     embedding_size |-> a.embedding_size,
     hidden_units |-> a.hidden_units,
     dropout |-> a.dropout]

\* The params dict train_main gives the Estimator (no numeric_columns key).
TrainMainParams(cols, a) ==
    [categorical_columns |-> cols,
     use_linear |-> ~a.exclude_linear,
     use_mf |-> ~a.exclude_mf,
     use_dnn |-> ~a.exclude_dnn,
     embedding_size |-> a.embedding_size,
     hidden_units |-> a.hidden_units,
     dropout |-> a.dropout]

NoParams == [k \in {} |-> 0]

Event(op) == [op |-> op, n |-> n, dir |-> modelDir]

\* try: train_main(args)
MainTry ==
    /\ pc = "main"
    /\ pc' = "read_csv"
    /\ UNCHANGED <<script, argv, args, n, categorical_columns, estimator_params,
                   modelDir, events, exc, excLog, exitStatus>>
    /\ UNCHANGED <<fnVars, mfVars>>

\* dd.read_csv(...).persist(); build_categorical_columns(df, ...)
ReadCsv ==
    /\ pc = "read_csv"
    /\ \/ \E k \in 0..MaxCategorical :
            /\ categorical_columns' = Columns("categorical", k)
            /\ pc' = "rmtree"
            /\ exc' = exc
       \/ /\ exc' = "IOError: train_csv"
          /\ pc' = "except"
          /\ categorical_columns' = categorical_columns
    /\ UNCHANGED <<script, argv, args, n, estimator_params, modelDir, events,
                   excLog, exitStatus>>
    /\ UNCHANGED <<fnVars, mfVars>>

\* What shutil.rmtree(model_dir, ignore_errors=True) can leave of a directory:
\* nothing, or, its errors being ignored, any part of it.
RmtreeLeaves(dir) == 0..dir

\* shutil.rmtree(args.model_dir, ignore_errors=True)
Rmtree ==
    /\ pc = "rmtree"
    /\ \E left \in RmtreeLeaves(modelDir) :
          /\ modelDir' = left
          /\ events' = Append(events, [op |-> "rmtree", n |-> n, dir |-> left])
    /\ pc' = "estimator"
    /\ UNCHANGED <<script, argv, args, n, categorical_columns, estimator_params,
                   exc, excLog, exitStatus>>
    /\ UNCHANGED <<fnVars, mfVars>>

\* model = tf.estimator.Estimator(model_fn, model_dir, params) / LinearClassifier(...)
Construct ==
    /\ pc = "estimator"
    /\ estimator_params' = IF script = "deep_fm"
                             THEN TrainMainParams(categorical_columns, args)
                             ELSE estimator_params
    /\ events' = Append(events, Event("estimator"))
    /\ pc' = "loop"
    /\ UNCHANGED <<script, argv, args, n, categorical_columns, modelDir,
                   exc, excLog, exitStatus>>
    /\ UNCHANGED <<fnVars, mfVars>>

\* Faulty variant: range(num_epochs + 1).
LoopContinues_Inclusive(i, epochs) == i <= epochs

\* for n in range(args.num_epochs): has the range another index?
LoopContinues(i, epochs) == i < epochs

\* for n in range(args.num_epochs)
Loop ==
    /\ pc = "loop"
    /\ IF LoopContinues(n, args.num_epochs)
         THEN /\ pc' = "train"
              /\ exitStatus' = exitStatus
         ELSE /\ pc' = "exit"
              /\ exitStatus' = "ok"
    /\ UNCHANGED <<script, argv, args, n, categorical_columns, estimator_params,
                   modelDir, events, exc, excLog>>
    /\ UNCHANGED <<fnVars, mfVars>>

\* model.train(input_fn=...) is called
TrainCall ==
    /\ pc = "train"
    /\ events' = Append(events, Event("train"))
    /\ pc' = "in_train"
    /\ UNCHANGED <<script, argv, args, n, categorical_columns, estimator_params,
                   modelDir, exc, excLog, exitStatus>>
    /\ UNCHANGED <<fnVars, mfVars>>

\* model.evaluate(input_fn=...) is called
EvaluateCall ==
    /\ pc = "evaluate"
    /\ events' = Append(events, Event("evaluate"))
    /\ pc' = "in_evaluate"
    /\ UNCHANGED <<script, argv, args, n, categorical_columns, estimator_params,
                   modelDir, exc, excLog, exitStatus>>
    /\ UNCHANGED <<fnVars, mfVars>>

CallMode == IF pc = "in_train" THEN "TRAIN" ELSE "EVAL"
CallError == IF pc = "in_train" THEN "TrainError" ELSE "EvaluateError"

\* The Estimator calls model_fn(features, labels, mode, params) to build the graph.
EstimatorCallsModelFn ==
    /\ script = "deep_fm"
    /\ pc \in {"in_train", "in_evaluate"}
    /\ mpc = "idle"
    /\ mpc' = "check_columns"
    /\ mode' = CallMode
    /\ params' = estimator_params
    /\ logits' = EmptyBag
    /\ built' = <<>>
    /\ input_layer' = Unbound
    /\ embedding_mat' = <<>>
    /\ net' = <<>>
    /\ predictions' = NoPredictions
    /\ computed' = {}
    /\ espec' = <<>>
    /\ merr' = "none"
    /\ UNCHANGED <<scriptVars, mfVars>>

\* An exception of model_fn leaves the train or evaluate call.
ModelFnRaises ==
    /\ pc \in {"in_train", "in_evaluate"}
    /\ mpc = "raised"
    /\ exc' = merr
    /\ pc' = "except"
    /\ mpc' = "idle"
    /\ UNCHANGED <<script, argv, args, n, categorical_columns, estimator_params,
                   modelDir, events, excLog, exitStatus>>
    /\ UNCHANGED <<params, mode, logits, built, input_layer, embedding_mat, net,
                   predictions, computed, espec, merr>>
    /\ UNCHANGED mfVars

\* The call's graph is ready: built by model_fn (deep_fm) or canned (linear).
GraphReady ==
    \/ script = "deep_fm" /\ mpc = "returned"
    \/ script = "linear" /\ mpc = "idle"

\* model.train(...) returns: a checkpoint is saved in model_dir.
TrainReturns ==
    /\ pc = "in_train"
    /\ GraphReady
    /\ modelDir' = modelDir + 1
    /\ events' = Append(events, Event("train_ok"))
    /\ pc' = "evaluate"
    /\ mpc' = "idle"
    /\ UNCHANGED <<script, argv, args, n, categorical_columns, estimator_params,
                   exc, excLog, exitStatus>>
    /\ UNCHANGED <<params, mode, logits, built, input_layer, embedding_mat, net,
                   predictions, computed, espec, merr>>
    /\ UNCHANGED mfVars

\* results = model.evaluate(...) returns.
EvaluateReturns ==
    /\ pc = "in_evaluate"
    /\ GraphReady
    /\ pc' = "log"
    /\ mpc' = "idle"
    /\ UNCHANGED <<script, argv, args, n, categorical_columns, estimator_params,
                   modelDir, events, exc, excLog, exitStatus>>
    /\ UNCHANGED <<params, mode, logits, built, input_layer, embedding_mat, net,
                   predictions, computed, espec, merr>>
    /\ UNCHANGED mfVars

\* model.train or model.evaluate raises: in its input_fn (before model_fn) or
\* while running the graph (a failed train may have saved a checkpoint).
CallFails ==
    /\ pc \in {"in_train", "in_evaluate"}
    /\ mpc \in {"idle", "returned"}
    /\ exc' = CallError
    /\ pc' = "except"
    /\ mpc' = "idle"
    /\ \E saved \in 0..1 :
          /\ saved = 1 => (pc = "in_train" /\ GraphReady)
          /\ modelDir' = modelDir + saved
    /\ UNCHANGED <<script, argv, args, n, categorical_columns, estimator_params,
                   events, excLog, exitStatus>>
    /\ UNCHANGED <<params, mode, logits, built, input_layer, embedding_mat, net,
                   predictions, computed, espec, merr>>
    /\ UNCHANGED mfVars

\* Faulty variant: the clean-up and the construction sit inside the loop.
LogResults_ThenCleanup ==
    /\ pc = "log"
    /\ events' = Append(events, Event("log"))
    /\ n' = n + 1
    /\ pc' = "rmtree"
    /\ UNCHANGED <<script, argv, args, categorical_columns, estimator_params,
                   modelDir, exc, excLog, exitStatus>>
    /\ UNCHANGED <<fnVars, mfVars>>

\* logger.info("epoch %s: %s.", n, results); the loop takes its next index
LogResults ==
    /\ pc = "log"
    /\ events' = Append(events, Event("log"))
    /\ n' = n + 1
    /\ pc' = "loop"
    /\ UNCHANGED <<script, argv, args, categorical_columns, estimator_params,
                   modelDir, exc, excLog, exitStatus>>
    /\ UNCHANGED <<fnVars, mfVars>>

\* except Exception as e: logger.exception(e)
Except ==
    /\ pc = "except"
    /\ excLog' = Append(excLog, exc)
    /\ pc' = "reraise"
    /\ UNCHANGED <<script, argv, args, n, categorical_columns, estimator_params,
                   modelDir, events, exc, exitStatus>>
    /\ UNCHANGED <<fnVars, mfVars>>

\* Faulty variant: the handler logs and does not raise.
HandlerOutcome_Swallow(e) == "ok"

\* What the handler leaves the script with: raise e.
HandlerOutcome(e) == e

\* raise e
Reraise ==
    /\ pc = "reraise"
    /\ exitStatus' = HandlerOutcome(exc)
    /\ pc' = "exit"
    /\ UNCHANGED <<script, argv, args, n, categorical_columns, estimator_params,
                   modelDir, events, exc, excLog>>
    /\ UNCHANGED <<fnVars, mfVars>>

IdleFn ==
    /\ mpc = "idle"
    /\ params = NoParams
    /\ mode = "TRAIN"
    /\ FreshFrame

IdleMf ==
    /\ emb = <<>>
    /\ mfv = [set |-> FALSE, val |-> [whole |-> 0, half |-> 0]]

IdleScript ==
    /\ script = "none"
    /\ argv = {}
    /\ args = ParseArgs({}, 0)
    /\ pc = "none"
    /\ n = 0
    /\ categorical_columns = <<>>
    /\ estimator_params = NoParams
    /\ modelDir = 0
    /\ events = <<>>
    /\ exc = "none"
    /\ excLog = <<>>
    /\ exitStatus = "running"

\* The state when __main__ reaches its try: the arguments are parsed.
Init ==
    /\ script \in {"deep_fm", "linear"}
    /\ argv \in SUBSET ExcludeFlags
    /\ script = "linear" => argv = {}
    /\ \E epochs \in -1..MaxEpochs : args = ParseArgs(argv, epochs)
    /\ pc = "main"
    /\ n = 0
    /\ categorical_columns = <<>>
    /\ estimator_params = NoParams
    /\ modelDir \in 0..MaxCheckpoint
    /\ events = <<>>
    /\ exc = "none"
    /\ excLog = <<>>
    /\ exitStatus = "running"
    /\ IdleFn
    /\ IdleMf

Next ==
    \/ MainTry
    \/ ReadCsv
    \/ Rmtree
    \/ Construct
    \/ Loop
    \/ TrainCall
    \/ EvaluateCall
    \/ EstimatorCallsModelFn
    \/ ModelFnStep
    \/ ModelFnRaises
    \/ TrainReturns
    \/ EvaluateReturns
    \/ CallFails
    \/ LogResults
    \/ Except
    \/ Reraise

\* A Python script keeps executing: some enabled step is eventually taken.
Spec == Init /\ [][Next]_vars /\ WF_vars(Next)

---------------------------------------------------------------------------
\* model_fn called on its own, as an Estimator may call it

ParamsChoices ==
    [categorical_columns : {Columns("categorical", k) : k \in 0..MaxCategorical},
     numeric_columns : {Columns("numeric", k) : k \in 0..MaxNumeric},
     use_linear : BOOLEAN,
     use_mf : BOOLEAN,
     use_dnn : BOOLEAN,
     embedding_size : 1..MaxEmbedding,
     hidden_units : {Repeat(DefaultHiddenSize, k) : k \in 0..MaxHidden},
     dropout : DropoutRates]

ModelFnInit ==
    /\ IdleScript
    /\ IdleMf
    /\ mpc = "check_columns"
    /\ params \in ParamsChoices
    /\ mode \in Modes
    /\ FreshFrame

ModelFnSpec == ModelFnInit /\ [][ModelFnStep]_vars

---------------------------------------------------------------------------
\* The arithmetic of the mf block on one example

RECURSIVE SumTo(_, _)
\* f[1] + ... + f[k]
SumTo(f, k) == IF k = 0 THEN 0 ELSE SumTo(f, k - 1) + f[k]

\* tf.reduce_sum(t, 1) of a [d, e] matrix: one sum per column k
ReduceSum1(mat) ==
    [k \in 1..Len(mat[1]) |-> SumTo([i \in 1..Len(mat) |-> mat[i][k]], Len(mat))]

\* tf.square
Square(x) == x * x

\* Faulty variant: the factor 0.5 is missing.
Half_Missing(x) == [whole |-> x, half |-> 0]

\* 0.5 * x, exactly: whole + half/2
Half(x) == [whole |-> (x - (x % 2)) \div 2, half |-> x % 2]

\* sum_square - square_sum, reduced over the embedding axis
MfTwice(mat) ==
    LET sum_square == [k \in 1..Len(mat[1]) |-> Square(ReduceSum1(mat)[k])]
        squares == [i \in 1..Len(mat) |-> [k \in 1..Len(mat[1]) |-> Square(mat[i][k])]]
        square_sum == ReduceSum1(squares)
    IN  SumTo([k \in 1..Len(mat[1]) |-> sum_square[k] - square_sum[k]], Len(mat[1]))

\* mf_logit = 0.5 * tf.reduce_sum(sum_square - square_sum, 1, keepdims=True)
MfLogit(mat) == Half(MfTwice(mat))

\* The values an embedding cell takes in the model.
Entries == {-1} \cup 0..MaxEntry

Matrices ==
    UNION {[1..d -> [1..e -> Entries]] : d \in 1..MaxDim, e \in MfWidths}

\* The same embedding vectors with rows i and j exchanged.
SwapRows(mat, i, j) ==
    [r \in 1..Len(mat) |-> IF r = i THEN mat[j] ELSE IF r = j THEN mat[i] ELSE mat[r]]

MfInit ==
    /\ IdleScript
    /\ IdleFn
    /\ emb \in Matrices
    /\ mfv = [set |-> FALSE, val |-> [whole |-> 0, half |-> 0]]

\* The session evaluates mf_logit on the example.
MfCompute ==
    /\ ~mfv.set
    /\ mfv' = [set |-> TRUE, val |-> MfLogit(emb)]
    /\ emb' = emb
    /\ UNCHANGED <<scriptVars, fnVars>>

\* The columns are given in another order; the logit computed before is kept.
MfReorder ==
    /\ mfv.set
    /\ \E i, j \in 1..Len(emb) :
          /\ i < j
          /\ emb' = SwapRows(emb, i, j)
    /\ mfv' = mfv
    /\ UNCHANGED <<scriptVars, fnVars>>

MfNext ==
    \/ MfCompute
    \/ MfReorder

MfSpec == MfInit /\ [][MfNext]_vars

---------------------------------------------------------------------------
\* Properties of model_fn (ModelFnSpec)

PastValidation == mpc \notin {"idle", "check_columns", "check_components", "raised"}
LogitsSummed == mpc \in {"predictions", "evaluation", "training", "returned"}
InputLayerDone == mpc \in {"mf", "dnn", "predictions", "evaluation", "training", "returned"}

NoColumns == Len(params.categorical_columns) = 0 /\ Len(params.numeric_columns) = 0
NoComponents == ~params.use_linear /\ ~params.use_mf /\ ~params.use_dnn
NothingBuilt ==
    /\ built = <<>>
    /\ logits = EmptyBag
    /\ ~input_layer.bound
    /\ net = <<>>
    /\ computed = {}
    /\ espec = <<>>

\* C1: model_fn raises ValueError exactly when both column lists are empty or all
\* three components are disabled; the check precedes every component; when both
\* conditions hold the feature-column error is raised; every other call passes.
C1_ValidationIff ==
    /\ mpc \in {"check_columns", "check_components", "raised"} => NothingBuilt
    /\ mpc = "raised" =>
          /\ NoColumns \/ NoComponents
          /\ merr = IF NoColumns THEN ColumnError ELSE ComponentError
    /\ PastValidation => ~NoColumns /\ ~NoComponents /\ merr = "none"

C1_Witness ==
    /\ mpc = "raised"
    /\ NoColumns /\ NoComponents
    /\ merr = ColumnError

Enabled(component) ==
    CASE component = "linear" -> params.use_linear
      [] component = "mf" -> params.use_mf
      [] component = "dnn" -> params.use_dnn

LogitOf(component) ==
    CASE component = "linear" -> "linear_logit"
      [] component = "mf" -> "mf_logit"
      [] component = "dnn" -> "dnn_logit"

Components == {"linear", "mf", "dnn"}
InBuilt(scope) == \E i \in 1..Len(built) : built[i] = scope

\* The sum in which each enabled component's logit has weight 1.
WeightOneSum(bag) ==
    /\ BagToSet(bag) \subseteq {LogitOf(c) : c \in Components}
    /\ \A c \in Components :
          CopiesIn(LogitOf(c), bag) = IF Enabled(c) THEN 1 ELSE 0

\* C2: once the blocks have run, logits is the sum of the logits of exactly the
\* enabled components, each with weight 1; a disabled component is not built; the
\* prediction helper is handed that sum; one enabled component gives its logit.
C2_LogitIsSumOfEnabled ==
    /\ LogitsSummed =>
          /\ WeightOneSum(logits)
          /\ \A c \in Components : InBuilt(c) <=> Enabled(c)
          /\ \A c \in Components :
                (Enabled(c) /\ \A o \in Components \ {c} : ~Enabled(o))
                   => logits = SetToBag({LogitOf(c)})
    /\ predictions.set => predictions.logits = logits /\ WeightOneSum(predictions.logits)
    /\ \A c \in Components : InBuilt(c) => Enabled(c)

C2_Witness ==
    /\ mpc = "returned"
    /\ \A c \in Components : Enabled(c)
    /\ predictions.set
    /\ BagCardinality(predictions.logits) = 3

\* C6: PREDICT returns only the predictions and builds no loss, metric or train
\* op; EVAL returns the loss and the metric ops and builds no train op; TRAIN
\* returns the loss and the train op; the predictions come from the summed logits.
C6_ModeDecidesSpec ==
    /\ mode = "PREDICT" => computed \subseteq {"predictions"}
    /\ mode = "EVAL" => "train_op" \notin computed
    /\ mpc = "returned" =>
          /\ espec.mode = mode
          /\ predictions.set /\ "predictions" \in computed
          /\ WeightOneSum(predictions.logits)
          /\ mode = "PREDICT" =>
                /\ DOMAIN espec = {"mode", "predictions"}
                /\ espec.predictions = "predictions"
          /\ mode = "EVAL" =>
                /\ DOMAIN espec = {"mode", "loss", "eval_metric_ops"}
                /\ {"losses", "metric_ops"} \subseteq computed
                /\ espec.loss = "losses.loss" /\ espec.eval_metric_ops = "metric_ops"
          /\ mode = "TRAIN" =>
                /\ DOMAIN espec = {"mode", "loss", "train_op"}
                /\ {"losses", "train_op"} \subseteq computed
                /\ espec.loss = "losses.loss" /\ espec.train_op = "train_op"
    /\ mpc # "returned" => espec = <<>>

C6_Witness ==
    /\ mpc = "returned"
    /\ mode = "PREDICT"
    /\ computed = {"predictions"}
    /\ DOMAIN espec = {"mode", "predictions"}

DropoutExpected == params.dropout > 0 /\ mode = "TRAIN"
DenseCount == Cardinality({i \in 1..Len(net) : net[i].op = "dense"})

\* C7: in the dnn block a dropout layer follows a hidden layer exactly when the
\* rate is positive and the mode is TRAIN; then it follows every hidden layer;
\* none follows the final logits layer; EVAL and PREDICT never have one.
C7_DropoutOnlyInTrain ==
    /\ InBuilt("dnn") =>
          /\ Len(net) >= 1
          /\ net[Len(net)].op = "logits"
          /\ DenseCount = Len(params.hidden_units)
          /\ \A i \in 1..Len(net) :
                /\ net[i].op = "dense" =>
                      /\ i < Len(net)
                      /\ net[i].units = params.hidden_units[net[i].scope + 1]
                      /\ (net[i + 1].op = "dropout" /\ net[i + 1].scope = net[i].scope)
                            <=> DropoutExpected
                /\ net[i].op = "dropout" => i > 1 /\ net[i - 1].op = "dense"
                /\ net[i].op = "logits" => i = Len(net)
    /\ mode \in {"EVAL", "PREDICT"} => \A i \in 1..Len(net) : net[i].op # "dropout"
    /\ ~InBuilt("dnn") => net = <<>>

C7_Witness ==
    /\ mpc = "returned"
    /\ mode = "TRAIN"
    /\ params.dropout > 0
    /\ Len(params.hidden_units) = 2
    /\ Len(net) = 5
    /\ net[2].op = "dropout" /\ net[4].op = "dropout"

AllColumns == params.categorical_columns \o params.numeric_columns

\* C8: when validation passed and mf or dnn is used, input_layer is bound before
\* either reads it, whatever lists are empty; it holds embedding_size cells per
\* column, categorical columns first; the mf reshape gives one row per column;
\* with only the linear component the input layer is not built.
C8_InputLayerBound ==
    /\ merr \notin {UnboundError, ReshapeError}
    /\ (InputLayerDone /\ (params.use_mf \/ params.use_dnn)) =>
          /\ input_layer.bound
          /\ InBuilt("input_layer")
          /\ Len(input_layer.cells) = Len(AllColumns) * params.embedding_size
          /\ \A j \in 1..Len(input_layer.cells) :
                /\ input_layer.cells[j].col
                      = AllColumns[((j - 1) \div params.embedding_size) + 1]
                /\ (input_layer.cells[j].col[1] = "categorical")
                      <=> j <= Len(params.categorical_columns) * params.embedding_size
    /\ InBuilt("mf") =>
          /\ Len(embedding_mat) = Len(AllColumns)
          /\ \A i \in 1..Len(embedding_mat) :
                /\ Len(embedding_mat[i]) = params.embedding_size
                /\ \A k \in 1..params.embedding_size :
                      embedding_mat[i][k] = [col |-> AllColumns[i], k |-> k]
    /\ (InputLayerDone /\ ~params.use_mf /\ ~params.use_dnn) =>
          ~input_layer.bound /\ ~InBuilt("input_layer")
    /\ ~InputLayerDone => ~input_layer.bound

C8_Witness ==
    /\ mpc = "returned"
    /\ params.use_mf
    /\ Len(params.categorical_columns) > 0
    /\ Len(params.numeric_columns) > 0
    /\ Len(embedding_mat) = Len(AllColumns)
    /\ input_layer.bound

---------------------------------------------------------------------------
\* Property of the mf arithmetic (MfSpec)

Dot(u, v) == SumTo([k \in 1..Len(u) |-> u[k] * v[k]], Len(u))

RECURSIVE PairsUpTo(_, _)
\* The sum of Dot(mat[i], mat[j]) over i < j <= d.
PairsUpTo(mat, d) ==
    IF d <= 1 THEN 0
    ELSE PairsUpTo(mat, d - 1)
         + SumTo([i \in 1..(d - 1) |-> Dot(mat[i], mat[d])], d - 1)

\* C9: the mf logit 0.5 * sum_k((sum_i e[i][k])^2 - sum_i e[i][k]^2) equals the
\* sum over the unordered pairs i < j of e[i] . e[j]; it is 0 for one vector and
\* does not depend on the order of the vectors: the logit computed before the
\* rows were exchanged (MfReorder) is the logit of the reordered matrix.
C9_MfIsPairwiseSum ==
    mfv.set =>
       /\ mfv.val = [whole |-> PairsUpTo(emb, Len(emb)), half |-> 0]
       /\ Len(emb) = 1 => mfv.val.whole = 0
       /\ mfv.val = MfLogit(emb)

C9_Witness ==
    /\ mfv.set
    /\ Len(emb) >= 3
    /\ mfv.val.whole < 0
    /\ emb[1] # emb[2]

---------------------------------------------------------------------------
\* Properties of a run of a script (Spec)

IsEpochStep(e) == e.op \in {"train", "evaluate", "log"}
IsRmtree(e) == e.op = "rmtree"
IsTrain(e) == e.op = "train"
IsTrainOk(e) == e.op = "train_ok"
IsEvaluate(e) == e.op = "evaluate"
IsLog(e) == e.op = "log"

Count(Test(_)) == Len(SelectSeq(events, Test))

\* The train and evaluate calls and the logged results, in order: <<op, epoch>>.
EpochSteps ==
    LET sel == SelectSeq(events, IsEpochStep)
    IN  [i \in 1..Len(sel) |-> <<sel[i].op, sel[i].n>>]

\* train 0, evaluate 0, log 0, train 1, evaluate 1, log 1, ...
ExpectedStep(i) ==
    << CASE i % 3 = 1 -> "train"
         [] i % 3 = 2 -> "evaluate"
         [] i % 3 = 0 -> "log",
       (i - 1) \div 3 >>

Epochs == IF args.num_epochs > 0 THEN args.num_epochs ELSE 0

C3_Alternation ==
    /\ Len(EpochSteps) <= 3 * Epochs
    /\ \A i \in 1..Len(EpochSteps) : EpochSteps[i] = ExpectedStep(i)
    /\ (pc = "exit" /\ exc = "none") =>
          /\ Len(EpochSteps) = 3 * Epochs
          /\ Count(IsTrain) = Epochs
          /\ Count(IsEvaluate) = Epochs
          /\ Count(IsLog) = Epochs
          /\ exitStatus = "ok"
    /\ args.num_epochs <= 0 => Count(IsTrain) = 0 /\ Count(IsEvaluate) = 0

\* C3: in deep_fm and linear, a run in which every call returns makes num_epochs
\* train calls and as many evaluate calls, alternating from train, logs the
\* epochs 0..num_epochs-1 in order, and terminates; num_epochs <= 0 makes no call.
C3_EpochLoop == []C3_Alternation /\ <>(pc = "exit")

C3_Witness ==
    /\ pc = "exit"
    /\ exitStatus = "ok"
    /\ args.num_epochs = 2
    /\ EpochSteps = <<<<"train", 0>>, <<"evaluate", 0>>, <<"log", 0>>,
                      <<"train", 1>>, <<"evaluate", 1>>, <<"log", 1>>>>

C4_Handled ==
    /\ Len(excLog) <= 1
    /\ exc = "none" => excLog = <<>>
    /\ exitStatus = "ok" => exc = "none"
    /\ (pc = "exit" /\ exc # "none") =>
          /\ excLog = <<exc>>
          /\ exitStatus = exc
    /\ exc # "none" =>
          /\ pc \in {"except", "reraise", "exit"}
          /\ \A i \in 1..Len(events) : ~(events[i].op = "log" /\ events[i].n = n)

\* C4: once a step of train_main has raised (the CSV read, a train or an evaluate
\* call), no train or evaluate call and no result log follows, the handler logs
\* the exception once and the script ends with that same exception.
C4_FailStop == []C4_Handled /\ [][exc # "none" => (events' = events /\ exc' = exc)]_vars

C4_Witness ==
    /\ pc = "exit"
    /\ exc = "EvaluateError"
    /\ n = 1
    /\ excLog = <<"EvaluateError">>
    /\ exitStatus = "EvaluateError"
    /\ Count(IsLog) = 1

FlagOf(component) ==
    CASE component = "linear" -> "--exclude-linear"
      [] component = "mf" -> "--exclude-mf"
      [] component = "dnn" -> "--exclude-dnn"

ModelFnCalled == DOMAIN params # {}

C5_Toggles ==
    /\ mpc = "returned" => \A c \in Components : InBuilt(c) <=> FlagOf(c) \notin argv
    /\ \A c \in Components : InBuilt(c) => FlagOf(c) \notin argv
    /\ (script = "deep_fm" /\ argv = {} /\ DOMAIN estimator_params # {}) =>
          /\ estimator_params.use_linear
          /\ estimator_params.use_mf
          /\ estimator_params.use_dnn
    /\ argv = ExcludeFlags => Count(IsTrainOk) = 0 /\ Count(IsEvaluate) = 0

EnvironmentFailed == exc \in {"IOError: train_csv", "TrainError", "EvaluateError"}

\* C5 as stated: every run given all three exclude flags ends with the
\* ValueError of the component check logged and re-raised (runs in which the
\* CSV read or the framework itself failed set aside).
C5_AllExcludedAlwaysRaises ==
    /\ C5_Toggles
    /\ (argv = ExcludeFlags /\ pc = "exit" /\ ~EnvironmentFailed) =>
          /\ excLog = <<ComponentError>>
          /\ exitStatus = ComponentError

\* C5: each exclude flag removes exactly its own component and all three are
\* built by default; a run given all three flags completes no train call and makes
\* no evaluate call; if its first train call reaches model_fn with a non-empty
\* column list it ends with the component-check ValueError logged and re-raised,
\* and with num_epochs <= 0 it never calls model_fn and, unless the CSV read
\* fails, ends normally.
C5_AllExcludedRaisesWhenReached ==
    /\ C5_Toggles
    /\ (argv = ExcludeFlags /\ pc = "exit") =>
          /\ (ModelFnCalled /\ categorical_columns # <<>>) =>
                /\ excLog = <<ComponentError>>
                /\ exitStatus = ComponentError
          /\ args.num_epochs <= 0 =>
                /\ ~ModelFnCalled
                /\ exc = "none" => exitStatus = "ok"
    /\ (argv = ExcludeFlags /\ args.num_epochs >= 1 /\ pc = "exit") => exitStatus # "ok"

C5_Witness ==
    /\ argv = ExcludeFlags
    /\ pc = "exit"
    /\ categorical_columns # <<>>
    /\ excLog = <<ComponentError>>
    /\ exitStatus = ComponentError
    /\ Count(IsTrain) = 1

RmtreeFirst ==
    \A i \in 1..Len(events) : events[i].op = "rmtree" => i = 1

\* Every epoch after the first trains on what the previous epoch left, and every
\* evaluate reads what its epoch's train left.
CheckpointsCarried ==
    LET trains == SelectSeq(events, IsTrain)
        evals == SelectSeq(events, IsEvaluate)
    IN  /\ \A i \in 1..Len(evals) : evals[i].dir = trains[i].dir + 1
        /\ \A i \in 2..Len(trains) : trains[i].dir = evals[i - 1].dir

\* C10 as stated: the directory is removed exactly once in every run and the
\* first epoch trains from an empty directory.
C10_RemovedOnceAndEmpty ==
    /\ Count(IsRmtree) <= 1
    /\ RmtreeFirst
    /\ pc = "exit" => Count(IsRmtree) = 1
    /\ Count(IsTrain) >= 1 => SelectSeq(events, IsTrain)[1].dir = 0
    /\ CheckpointsCarried
    /\ exc \in {ColumnError, ComponentError} => Count(IsRmtree) = 1

\* C10: train_main calls rmtree at most once, before the estimator is built and
\* before the first train call, never between epochs, and exactly once in every
\* run whose CSV read succeeds; the first epoch trains from the directory as
\* rmtree left it (empty unless an ignored error kept part of it); later epochs
\* use the previous epoch's checkpoint; a run model_fn rejects has called rmtree.
C10_RemovedOnceIfCsvRead ==
    /\ Count(IsRmtree) <= 1
    /\ RmtreeFirst
    /\ (pc = "exit" /\ exc # "IOError: train_csv") => Count(IsRmtree) = 1
    /\ pc = "exit" /\ exc = "IOError: train_csv" => events = <<>>
    /\ Len(events) >= 1 => events[1].op = "rmtree"
    /\ Count(IsTrain) >= 1 => SelectSeq(events, IsTrain)[1].dir = events[1].dir
    /\ CheckpointsCarried
    /\ exc \in {ColumnError, ComponentError} => Count(IsRmtree) = 1

C10_Witness ==
    /\ pc = "exit"
    /\ exitStatus = "ok"
    /\ args.num_epochs = 2
    /\ Count(IsRmtree) = 1
    /\ events[1] = [op |-> "rmtree", n |-> 0, dir |-> 0]
    /\ SelectSeq(events, IsTrain)[2].dir = 1
    /\ modelDir = 2

=============================================================================
